---- MODULE Spec2Model ----
\* A model of texar.modules.decoders.rnn_decoder_base.RNNDecoderBase:
\* the constructor's argument validation, _build's choice of the initial
\* state and of the maximum decoding length, the decode loop _build hands
\* the decoder to, and the abstract methods of the base class.
EXTENDS Integers, Sequences, FiniteSets, TLC

\* ---------------------------------------------------------------------
\* Python values
\* ---------------------------------------------------------------------

\* Python's None, for the arguments and fields modelled as strings.
None == "None"

\* An optional integer: <<>> is None, <<n>> is the integer n.
NoneInt == <<>>

Some(n) == <<n>>

IsNone(x) == x = <<>>

Val(x) == x[1]

\* ---------------------------------------------------------------------
\* Bounds
\* ---------------------------------------------------------------------

\* The largest max_decoding_length_* hyperparameter explored.
MaxLen == 2

\* utils.MAX_SEQ_LENGTH, scaled down so that a loop of that many steps can
\* be explored (in texar it is the largest int32).
MAX_SEQ_LENGTH == 3

\* The step counter of the decode loop is capped here; the cap lies above
\* every maximum the loop can be handed and is only met by a loop that has
\* no maximum.
TimeCap == MaxLen + MAX_SEQ_LENGTH + 2

\* ---------------------------------------------------------------------
\* Input domains
\* ---------------------------------------------------------------------

\* Cells handed to the constructor.
Cells == {"cellA", "cellB"}

\* The rnn_cell hyperparameter (the cell type to build).
RnnCellHParams == {"LSTMCell", "GRUCell"}

\* tf.identity.
tf_identity == "tf.identity"

\* Instances of tf.layers.Layer.
LayerInstances == {"layerA"}

\* Other objects that may be passed as output_layer.
OtherOutputLayers == {"callable"}

OutputLayerArgs == {None, tf_identity} \cup LayerInstances \cup OtherOutputLayers

VocabSizeArgs == {NoneInt, Some(3)}

LengthHParams == {NoneInt} \cup {Some(n) : n \in 0..MaxLen}

\* Helpers and their batch sizes.
Helpers == {"helperA", "helperB"}

helper_batch_size(h) ==
    CASE h = "helperA" -> 1
      [] h = "helperB" -> 2

NoState == [kind |-> "None"]

GivenStates == {[kind |-> "given", id |-> "s1"]}

InitialStateArgs == {NoState} \cup GivenStates

AbstractMethods == {"initialize", "step", "finalize", "output_size", "output_dtype"}

\* ---------------------------------------------------------------------
\* Hyperparameters
\* ---------------------------------------------------------------------

default_hparams ==
    [rnn_cell |-> "LSTMCell",
     max_decoding_length_train |-> NoneInt,
     max_decoding_length_infer |-> NoneInt,
     name |-> "rnn_decoder"]

HParamsValues ==
    [rnn_cell : RnnCellHParams,
     max_decoding_length_train : LengthHParams,
     max_decoding_length_infer : LengthHParams,
     name : {"rnn_decoder"}]

\* The hparams argument: <<>> is None, <<r>> is the dictionary r.
HParamsArgs == {<<>>} \cup {<<r>> : r \in HParamsValues}

\* ModuleBase.__init__: the hyperparameters given, or the defaults.
HParams(hparams) == IF hparams = <<>> THEN default_hparams ELSE hparams[1]

\* layers.get_rnn_cell: a new cell built from the rnn_cell hyperparameter.
get_rnn_cell(rnn_cell) == "built:" \o rnn_cell

\* tf.layers.Dense(units=vocab_size).
Dense(units) == "Dense"

isinstance_Layer(x) == x \in LayerInstances \cup {"Dense"}

VARIABLES
    pc,                  \* "new", "failed", "idle" or "decoding"
    error,               \* the exception of the last call, "none" if none
    last_call,           \* the method called last, "none" before any call
    args,                \* the constructor's arguments
    overrides,           \* the instance's class overrides the abstract methods
    _hparams,
    _cell,
    _vocab_size,
    _output_layer,
    _helper,
    _initial_state,
    _built,
    cells_built,         \* calls of layers.get_rnn_cell made so far
    call,                \* the arguments of the last _build call
    max_decoding_length, \* maximum_iterations of the decode loop
    time,                \* step invocations of the current decode loop
    finished,            \* the loop's stopping condition
    outputs              \* the outputs _build returned, <<>> if none

vars == <<pc, error, last_call, args, overrides, _hparams, _cell, _vocab_size,
          _output_layer, _helper, _initial_state, _built, cells_built, call,
          max_decoding_length, time, finished, outputs>>

objvars == <<args, overrides, _hparams, _cell, _vocab_size, _output_layer,
             cells_built>>

loopvars == <<max_decoding_length, time, finished>>

NoArgs == [cell |-> None, vocab_size |-> NoneInt, output_layer |-> None,
           hparams |-> <<>>]

NoCall == [helper |-> None, initial_state |-> NoState, train |-> FALSE]

Init ==
    /\ pc = "new"
    /\ error = "none"
    /\ last_call = "none"
    /\ args = NoArgs
    /\ overrides = FALSE
    /\ _hparams = default_hparams
    /\ _cell = None
    /\ _vocab_size = NoneInt
    /\ _output_layer = None
    /\ _helper = None
    /\ _initial_state = NoState
    /\ _built = FALSE
    /\ cells_built = 0
    /\ call = NoCall
    /\ max_decoding_length = NoneInt
    /\ time = 0
    /\ finished = FALSE
    /\ outputs = NoneInt

\* ---------------------------------------------------------------------
\* RNNDecoderBase.__init__
\* ---------------------------------------------------------------------

\* The cell of the decoder: the one given, else one built from hparams.
MakeCell(cell, hp) == IF cell # None THEN cell ELSE get_rnn_cell(hp.rnn_cell)

\* The validation without the test of vocab_size.
OutputLayerError_no_vocab_check(vocab_size, output_layer) ==
    IF output_layer = None
    THEN "none"
    ELSE IF output_layer # tf_identity /\ ~isinstance_Layer(output_layer)
         THEN "ValueError"
         ELSE "none"

\* The validation with the type test made only when vocab_size is missing.
OutputLayerError_vocab_skips_type_check(vocab_size, output_layer) ==
    IF output_layer = None
    THEN IF IsNone(vocab_size) THEN "ValueError" ELSE "none"
    ELSE IF /\ IsNone(vocab_size)
            /\ output_layer # tf_identity
            /\ ~isinstance_Layer(output_layer)
         THEN "ValueError"
         ELSE "none"

\* The outcome of the output-layer validation.
OutputLayerError(vocab_size, output_layer) ==
    IF output_layer = None
    THEN IF IsNone(vocab_size) THEN "ValueError" ELSE "none"
    ELSE IF output_layer # tf_identity /\ ~isinstance_Layer(output_layer)
         THEN "ValueError"
         ELSE "none"

\* The output layer the constructor leaves in self._output_layer.
MakeOutputLayer(vocab_size, output_layer) ==
    IF output_layer = None /\ ~IsNone(vocab_size)
    THEN Dense(vocab_size)
    ELSE output_layer

__init__(cell, vocab_size, output_layer, hparams, sub) ==
    /\ pc = "new"
    /\ last_call' = "__init__"
    /\ args' = [cell |-> cell, vocab_size |-> vocab_size,
                output_layer |-> output_layer, hparams |-> hparams]
    /\ overrides' = sub
    /\ _hparams' = HParams(hparams)
    /\ _cell' = MakeCell(cell, _hparams')
    /\ cells_built' = IF cell # None THEN cells_built ELSE cells_built + 1
    /\ _vocab_size' = vocab_size
    /\ _output_layer' = MakeOutputLayer(vocab_size, output_layer)
    /\ error' = OutputLayerError(vocab_size, output_layer)
    /\ pc' = IF error' = "none" THEN "idle" ELSE "failed"
    /\ UNCHANGED <<_helper, _initial_state, _built, call, loopvars, outputs>>

Construct ==
    \E cell \in {None} \cup Cells, vocab_size \in VocabSizeArgs,
       output_layer \in OutputLayerArgs, hparams \in HParamsArgs,
       sub \in BOOLEAN :
        __init__(cell, vocab_size, output_layer, hparams, sub)

\* ---------------------------------------------------------------------
\* The abstract methods of the base class
\* ---------------------------------------------------------------------

\* An initialize that returns instead of raising.
initialize_returns == "none"

initialize == "NotImplementedError"

step == "NotImplementedError"

finalize == "NotImplementedError"

output_size == "NotImplementedError"

output_dtype == "NotImplementedError"

BaseMethod(m) ==
    CASE m = "initialize" -> initialize
      [] m = "step" -> step
      [] m = "finalize" -> finalize
      [] m = "output_size" -> output_size
      [] m = "output_dtype" -> output_dtype

\* What a call of method m on the instance raises: a subclass that
\* overrides m returns normally, the base class's own method runs otherwise.
Invoke(m) == IF overrides THEN "none" ELSE BaseMethod(m)

\* A caller invokes one of the abstract methods on the decoder.
CallMethod ==
    /\ pc = "idle"
    /\ \E m \in AbstractMethods :
           /\ last_call' = m
           /\ error' = Invoke(m)
    /\ UNCHANGED <<pc, objvars, _helper, _initial_state, _built, call,
                   loopvars, outputs>>

\* ---------------------------------------------------------------------
\* Properties cell, batch_size, state_size, vocab_size; zero_state
\* ---------------------------------------------------------------------

cell == _cell

batch_size == helper_batch_size(_helper)

vocab_size == _vocab_size

\* The state size of a cell (cell.state_size).
cell_state_size(c) == "state_size:" \o c

state_size == cell_state_size(cell)

\* cell.zero_state(batch_size, dtype) of cell c.
cell_zero_state(c, size, dtype) ==
    [kind |-> "zero", cell |-> c, batch_size |-> size, dtype |-> dtype]

zero_state(size, dtype) == cell_zero_state(_cell, size, dtype)

\* ---------------------------------------------------------------------
\* RNNDecoderBase._build and the decode loop
\* ---------------------------------------------------------------------

\* The maximum with a None hyperparameter passed on as it is.
MaxDecodingLength_keeps_None(hp, train) ==
    IF train THEN hp.max_decoding_length_train
    ELSE hp.max_decoding_length_infer

\* The maximum with the two branches of the mode test exchanged.
MaxDecodingLength_swapped(hp, train) ==
    LET max_decoding_length_train ==
            IF IsNone(hp.max_decoding_length_train)
            THEN Some(MAX_SEQ_LENGTH)
            ELSE hp.max_decoding_length_train
        max_decoding_length_infer ==
            IF IsNone(hp.max_decoding_length_infer)
            THEN Some(MAX_SEQ_LENGTH)
            ELSE hp.max_decoding_length_infer
    IN  IF train THEN max_decoding_length_infer
        ELSE max_decoding_length_train

\* maximum_iterations handed to dynamic_decode, by the global mode.
MaxDecodingLength(hp, train) ==
    LET max_decoding_length_train ==
            IF IsNone(hp.max_decoding_length_train)
            THEN Some(MAX_SEQ_LENGTH)
            ELSE hp.max_decoding_length_train
        max_decoding_length_infer ==
            IF IsNone(hp.max_decoding_length_infer)
            THEN Some(MAX_SEQ_LENGTH)
            ELSE hp.max_decoding_length_infer
    IN  IF train THEN max_decoding_length_train
        ELSE max_decoding_length_infer

\* dynamic_decode's test of the maximum: t >= maximum_iterations, never
\* true when no maximum is given.
ReachedMax(t, maximum_iterations) ==
    ~IsNone(maximum_iterations) /\ t >= Val(maximum_iterations)

\* dynamic_decode up to the loop: initialize the decoder, then enter the
\* loop with the initial stopping condition.
StartDecode(maximum_iterations, initial_finished) ==
    /\ max_decoding_length' = maximum_iterations
    /\ time' = 0
    /\ IF Invoke("initialize") # "none"
       THEN /\ error' = Invoke("initialize")
            /\ pc' = "idle"
            /\ finished' = FALSE
       ELSE /\ error' = "none"
            /\ pc' = "decoding"
            /\ finished' = (initial_finished
                            \/ ReachedMax(0, maximum_iterations))

\* _build reading the batch size before it stores the helper: the helper of
\* the call before is used, and a missing one raises AttributeError.
_build_stale_helper(helper, initial_state, train, initial_finished) ==
    /\ pc = "idle"
    /\ last_call' = "_build"
    /\ call' = [helper |-> helper, initial_state |-> initial_state,
                train |-> train]
    /\ _helper' = helper
    /\ outputs' = NoneInt
    /\ UNCHANGED <<objvars, _built>>
    /\ IF initial_state = NoState /\ _helper = None
       THEN /\ error' = "AttributeError"
            /\ UNCHANGED <<pc, _initial_state, loopvars>>
       ELSE /\ _initial_state' =
                   IF initial_state # NoState THEN initial_state
                   ELSE zero_state(batch_size, "float32")
            /\ StartDecode(MaxDecodingLength(_hparams, train),
                           initial_finished)

\* _build making the cell anew from hparams.rnn_cell on every call.
_build_rebuilds_cell(helper, initial_state, train, initial_finished) ==
    /\ pc = "idle"
    /\ last_call' = "_build"
    /\ call' = [helper |-> helper, initial_state |-> initial_state,
                train |-> train]
    /\ _helper' = helper
    /\ _cell' = get_rnn_cell(_hparams.rnn_cell)
    /\ cells_built' = cells_built
    /\ _initial_state' =
           IF initial_state # NoState THEN initial_state
           ELSE cell_zero_state(_cell', batch_size', "float32")
    /\ StartDecode(MaxDecodingLength(_hparams, train), initial_finished)
    /\ outputs' = NoneInt
    /\ UNCHANGED <<args, overrides, _hparams, _vocab_size, _output_layer,
                   _built>>

_build(helper, initial_state, train, initial_finished) ==
    /\ pc = "idle"
    /\ last_call' = "_build"
    /\ call' = [helper |-> helper, initial_state |-> initial_state,
                train |-> train]
    /\ _helper' = helper
    /\ _initial_state' =
           IF initial_state # NoState THEN initial_state
           ELSE zero_state(batch_size', "float32")
    /\ StartDecode(MaxDecodingLength(_hparams, train), initial_finished)
    /\ outputs' = NoneInt
    /\ UNCHANGED <<objvars, _built>>

Build ==
    \E helper \in Helpers, initial_state \in InitialStateArgs,
       train \in BOOLEAN, initial_finished \in BOOLEAN :
        _build(helper, initial_state, train, initial_finished)

\* One iteration of the decode loop: the decoder's step is invoked, and the
\* loop stops when the helper signals finished or the maximum is reached.
DecodeStep ==
    /\ pc = "decoding"
    /\ ~finished
    /\ time < TimeCap
    /\ IF Invoke("step") # "none"
       THEN /\ error' = Invoke("step")
            /\ pc' = "idle"
            /\ UNCHANGED <<time, finished>>
       ELSE /\ time' = time + 1
            /\ \E decoder_finished \in BOOLEAN :
                   finished' = (decoder_finished
                                \/ ReachedMax(time + 1, max_decoding_length))
            /\ UNCHANGED <<pc, error>>
    /\ UNCHANGED <<last_call, objvars, _helper, _initial_state, _built,
                   call, max_decoding_length, outputs>>

\* The loop has stopped: dynamic_decode returns (a NotImplementedError of
\* finalize is not passed on by it) and _build registers the trainable
\* variables and returns the outputs, one per step invocation.
DecodeReturn ==
    /\ pc = "decoding"
    /\ finished
    /\ outputs' = Some(time)
    /\ _built' = TRUE
    /\ pc' = "idle"
    /\ UNCHANGED <<error, last_call, objvars, _helper, _initial_state, call,
                   loopvars>>

Next ==
    \/ Construct
    \/ CallMethod
    \/ Build
    \/ DecodeStep
    \/ DecodeReturn

Spec == Init /\ [][Next]_vars

\* The decode loop is run by the framework until it stops.
FairSpec == Spec /\ WF_vars(DecodeStep) /\ WF_vars(DecodeReturn)

\* ---------------------------------------------------------------------
\* Properties
\* ---------------------------------------------------------------------

Constructed == pc \in {"idle", "decoding"}

BuildCalled == Constructed /\ call # NoCall

\* C1: a construction with output_layer = None and vocab_size = None has
\* raised ValueError, whatever the cell and hparams; a construction with
\* output_layer = None and a vocab_size has not raised.
C1_MissingOutputLayerAndVocab ==
    (pc # "new" /\ args.output_layer = None) =>
        IF IsNone(args.vocab_size)
        THEN pc = "failed" /\ error = "ValueError"
        ELSE pc # "failed"

C1_Witness ==
    /\ pc = "failed"
    /\ error = "ValueError"
    /\ args.output_layer = None
    /\ IsNone(args.vocab_size)
    /\ args.cell # None
    /\ args.hparams # <<>>

\* C2: a construction with an output_layer succeeds exactly when the
\* output_layer is tf.identity or an instance of tf.layers.Layer, and
\* raises ValueError otherwise, with or without a vocab_size.
C2_OutputLayerType ==
    (pc # "new" /\ args.output_layer # None) =>
        IF args.output_layer = tf_identity
           \/ args.output_layer \in LayerInstances
        THEN pc # "failed"
        ELSE pc = "failed" /\ error = "ValueError"

C2_Witness ==
    /\ pc = "failed"
    /\ error = "ValueError"
    /\ args.output_layer \in OtherOutputLayers
    /\ ~IsNone(args.vocab_size)

\* C3: the decode loop is always given a finite maximum and never invokes
\* step more often than that maximum, and every decode loop that was
\* started stops and returns.
C3_DecodeTerminates ==
    /\ [](pc = "decoding" =>
            /\ ~IsNone(max_decoding_length)
            /\ time <= Val(max_decoding_length))
    /\ ((pc = "decoding") ~> (pc = "idle"))

\* A loop that ran to utils.MAX_SEQ_LENGTH, put in place of a None
\* hyperparameter, and returned.
C3_Witness ==
    /\ pc = "idle"
    /\ call.train
    /\ IsNone(_hparams.max_decoding_length_train)
    /\ outputs = Some(MAX_SEQ_LENGTH)

\* C4: the maximum of the decode loop is max_decoding_length_train in
\* train mode and max_decoding_length_infer otherwise, each replaced by
\* utils.MAX_SEQ_LENGTH when it is None, independently of the other; under
\* the default hyperparameters it is utils.MAX_SEQ_LENGTH in both modes.
C4_MaxByMode ==
    BuildCalled =>
        /\ call.train =>
               max_decoding_length =
                   IF _hparams.max_decoding_length_train = NoneInt
                   THEN Some(MAX_SEQ_LENGTH)
                   ELSE _hparams.max_decoding_length_train
        /\ ~call.train =>
               max_decoding_length =
                   IF _hparams.max_decoding_length_infer = NoneInt
                   THEN Some(MAX_SEQ_LENGTH)
                   ELSE _hparams.max_decoding_length_infer
        /\ args.hparams = <<>> =>
               max_decoding_length = Some(MAX_SEQ_LENGTH)

\* A train-mode call with a train maximum and no infer maximum.
C4_Witness ==
    /\ BuildCalled
    /\ call.train
    /\ _hparams.max_decoding_length_train = Some(1)
    /\ IsNone(_hparams.max_decoding_length_infer)
    /\ max_decoding_length = Some(1)

\* C5: after a call of _build the initial state is the one given when one
\* was given, and otherwise the zero state of the cell for the batch size
\* of the helper of that call, with dtype float32.
C5_InitialState ==
    BuildCalled =>
        /\ _helper = call.helper
        /\ last_call = "_build" => error # "AttributeError"
        /\ _initial_state =
               IF call.initial_state # NoState
               THEN call.initial_state
               ELSE [kind |-> "zero", cell |-> _cell,
                     batch_size |-> helper_batch_size(call.helper),
                     dtype |-> "float32"]

\* A later call of _build, without an initial state.
C5_Witness ==
    /\ pc = "decoding"
    /\ _built
    /\ call.initial_state = NoState
    /\ call.helper = "helperB"
    /\ _initial_state.batch_size = 2

\* C6: on an instance whose class does not override them, initialize,
\* step, finalize, output_size and output_dtype raise NotImplementedError
\* whenever they are called, no decode loop is entered and _build never
\* returns outputs.
C6_AbstractMethodsRaise ==
    (pc # "new" /\ ~overrides) =>
        /\ last_call \in AbstractMethods => error = "NotImplementedError"
        /\ last_call = "_build" => error = "NotImplementedError"
        /\ pc # "decoding"
        /\ IsNone(outputs)
        /\ ~_built

\* step called on a base instance after an attempt to decode.
C6_Witness ==
    /\ ~overrides
    /\ last_call = "step"
    /\ error = "NotImplementedError"
    /\ call # NoCall

\* The cell the constructor's arguments stand for.
GivenOrBuiltCell ==
    IF args.cell # None THEN args.cell
    ELSE get_rnn_cell(HParams(args.hparams).rnn_cell)

\* C7: the decoder's cell is the cell given to the constructor, and then
\* no cell was built from hparams.rnn_cell; it is the cell built from
\* hparams.rnn_cell only when none was given. This stays so through all
\* calls of _build, for the cell property, zero_state and state_size.
C7_CellFixed ==
    pc # "new" =>
        /\ _cell = GivenOrBuiltCell
        /\ cells_built = IF args.cell # None THEN 0 ELSE 1
        /\ cell = GivenOrBuiltCell
        /\ zero_state(1, "float32").cell = GivenOrBuiltCell
        /\ state_size = cell_state_size(GivenOrBuiltCell)

\* A decoder given a cell, after a completed _build in train mode and a
\* further call in infer mode.
C7_Witness ==
    /\ pc = "decoding"
    /\ _built
    /\ ~call.train
    /\ args.cell = "cellA"
    /\ _cell = "cellA"
    /\ _hparams.rnn_cell = "GRUCell"
====
